---- MODULE Spec2Model ----
(***************************************************************************)
(* A model of Shade::Emitter (src/emitter.cpp): the JIT code emitter that  *)
(* places function bodies into malloc'ed buffers, lays out constant pools  *)
(* and jump tables, assigns globals to offsets of a simulated arena and    *)
(* resolves the recorded relocations in one deferred pass.                 *)
(*                                                                         *)
(* Pointers that leave the emitter (results of getPointerToGlobal and the  *)
(* result pointer of a relocation) are 32-bit values written as records    *)
(* [hi |-> top byte, lo |-> low 24 bits], so that the marker 0xDA000000 is *)
(* or-ed into the top byte exactly as the code does.  Addresses inside     *)
(* the emission buffers are plain naturals; 0 is the null pointer.         *)
(***************************************************************************)
EXTENDS Integers, Sequences, FiniteSets, TLC

\* ------------------------------------------------------------------ bounds

\* Native stack frames available to nested getGlobalVariableAddress calls
\* (a call made by the initializer of a global that is being assigned).
MaxDepth == 3

\* Emission attempts the driver makes for one function before it gives up.
MaxAttempts == 4

\* resolveRelocations passes in one run.
MaxResolves == 2

\* allocateSpace calls the producer or the engine makes in one run.
MaxAllocs == 3

\* ------------------------------------------------------- program constants

\* The top byte of the marker 0xDA000000 or-ed into every global address.
GlobalTag == 218

\* 2^24: the weight of the top byte of a 32-bit pointer.
TagShift == 16777216

\* startFunctionBody's default buffer size, 0x1000.
DefaultBufferSize == 4096

\* The first address handed out by std::malloc in this model, and its
\* alignment guarantee.
HeapBase == 65536

MallocAlign == 16

Null == 0

\* ------------------------------------------------------------- arithmetic

Min(a, b) == IF a < b THEN a ELSE b

Max(a, b) == IF a > b THEN a ELSE b

\* a | b on naturals, bit by bit.
RECURSIVE BitOr(_, _)
BitOr(a, b) ==
    IF a = 0 THEN b
    ELSE IF b = 0 THEN a
    ELSE 2 * BitOr(a \div 2, b \div 2) + (IF a % 2 = 1 \/ b % 2 = 1 THEN 1 ELSE 0)

\* a & ~m on naturals, bit by bit.
RECURSIVE BitAndNot(_, _)
BitAndNot(a, m) ==
    IF a = 0 THEN 0
    ELSE 2 * BitAndNot(a \div 2, m \div 2) + (IF a % 2 = 1 /\ m % 2 = 0 THEN 1 ELSE 0)

\* llvm::RoundUpToAlignment(Value, Align).
RoundUpToAlignment_None(Value, Align) == Value

RoundUpToAlignment(Value, Align) == ((Value + Align - 1) \div Align) * Align

\* A 32-bit pointer value as [hi, lo].
Ptr(n) == [hi |-> n \div TagShift, lo |-> n % TagShift]

NullPtr == Ptr(0)

\* The outcome of a call that returns a pointer: the pointer, the end of the
\* process (report_fatal_error, abort, a failed assertion, stack
\* exhaustion), or an indeterminate value (a read outside a container or a
\* return past llvm_unreachable in a build without assertions).
Returned(p) == [status |-> "ok", ptr |-> p]

Fatal == [status |-> "fatal", ptr |-> NullPtr]

Garbage == [status |-> "garbage", ptr |-> NullPtr]

\* (void *)(offset | 0xDA000000)
TaggedAddress(offset) ==
    [hi |-> BitOr(offset \div TagShift, GlobalTag), lo |-> offset % TagShift]

\* ------------------------------------------------------ the unit's globals

\* The global variables of the compilation unit: their allocation size and
\* preferred alignment (TargetData), linkage, thread-locality, and the
\* globals whose addresses their initializers take, in initializer order.
GlobalVars == {"g1", "gbig", "gtls", "gself", "gdecl", "gavail"}

GlobalInfo ==
    [g \in GlobalVars |->
        CASE g = "g1"     -> [size |-> 8, align |-> 8, linkage |-> "defined",
                              tls |-> FALSE, refs |-> << >>]
          [] g = "gbig"   -> [size |-> 2 * TagShift, align |-> 16, linkage |-> "defined",
                              tls |-> FALSE, refs |-> <<"g1">>]
          [] g = "gtls"   -> [size |-> 4, align |-> 4, linkage |-> "defined",
                              tls |-> TRUE, refs |-> <<"g1">>]
          [] g = "gself"  -> [size |-> 4, align |-> 4, linkage |-> "defined",
                              tls |-> FALSE, refs |-> <<"gself">>]
          [] g = "gdecl"  -> [size |-> 4, align |-> 4, linkage |-> "declaration",
                              tls |-> FALSE, refs |-> << >>]
          [] g = "gavail" -> [size |-> 4, align |-> 4, linkage |-> "available_externally",
                              tls |-> FALSE, refs |-> << >>]]

\* The aliases of the unit and the global each resolves to
\* (GlobalAlias::resolveAliasedGlobal).
Aliases == {"a1"}

resolveAliasedGlobal(a) == "g1"

\* V->isDeclaration() || V->hasAvailableExternallyLinkage()
IsExternalGlobal_DeclOnly(V) == GlobalInfo[V].linkage = "declaration"

IsExternalGlobal(V) ==
    \/ GlobalInfo[V].linkage = "declaration"
    \/ GlobalInfo[V].linkage = "available_externally"

\* TD.getTypeAllocSize(V->getType()->getElementType())
TypeAllocSize(V) == GlobalInfo[V].size

\* TD.getPreferredAlignment(V)
PreferredAlignment(V) == GlobalInfo[V].align

IsThreadLocal(V) == GlobalInfo[V].tls

\* ------------------------------------------------- global address registry

\* The registry part of the emitter's state, as the record st that
\* getGlobalVariableAddress reads and returns:
\*   offs   GlobalOffsets, a map from assigned globals to arena offsets
\*   size   Globals.size(), the size of the arena
\*   mem    the contents of the arena, per region start: "zero" after the
\*          memset, "init" once the initializer has filled the region
\*   runs   how many times engine.InitializeMemory was started per global
\*   first  the tagged address returned by the first call that returned
\*          for each global
\*   grew   how many times Globals.set_size was called

\* GlobalOffsets.find(V) != GlobalOffsets.end()
HasOffset_Never(offs, V) == FALSE

HasOffset(offs, V) == V \in DOMAIN offs

\* Globals.set_size(offset + S)
ArenaNewSize_NoOffset(offset, S) == S

ArenaNewSize(offset, S) == offset + S

\* GlobalOffsets[V] = offset
RecordOffset(offs, V, offset) ==
    [g \in DOMAIN offs \cup {V} |-> IF g = V THEN offset ELSE offs[g]]

RememberFirst(first, V, addr) ==
    IF V \in DOMAIN first THEN first
    ELSE [g \in DOMAIN first \cup {V} |-> IF g = V THEN addr ELSE first[g]]

WriteRegion(mem, offset, what) ==
    [o \in DOMAIN mem \cup {offset} |-> IF o = offset THEN what ELSE mem[o]]

RECURSIVE getGlobalVariableAddress(_, _, _)
RECURSIVE InitializeRefs(_, _, _)

\* The address lookups engine.InitializeMemory makes while it fills the
\* region of a global: one getGlobalVariableAddress call per global the
\* initializer refers to.  Returns [st, ok].
InitializeRefs(st, refs, depth) ==
    IF refs = << >> THEN [st |-> st, ok |-> TRUE]
    ELSE LET r == getGlobalVariableAddress(st, Head(refs), depth)
         IN  IF r.val = Fatal THEN [st |-> r.st, ok |-> FALSE]
             ELSE InitializeRefs(r.st, Tail(refs), depth)

\* engine.InitializeMemory(V->getInitializer(), &Globals[offset])
InitializeMemory(st, V, offset, depth) ==
    LET started == [st EXCEPT !.runs[V] = @ + 1]
        r == InitializeRefs(started, GlobalInfo[V].refs, depth)
    IN  IF ~r.ok THEN r
        ELSE [st |-> [r.st EXCEPT !.mem = WriteRegion(@, offset, "init")],
              ok |-> TRUE]

\* Emitter::getGlobalVariableAddress.  depth is the number of stack frames
\* left; a call that finds none ends the process (stack exhaustion), like
\* report_fatal_error does.  Returns [st, val], val the outcome.
getGlobalVariableAddress(st, V, depth) ==
    IF HasOffset(st.offs, V)
    THEN LET addr == TaggedAddress(st.offs[V])
         IN  [st |-> [st EXCEPT !.first = RememberFirst(@, V, addr)],
              val |-> Returned(addr)]
    ELSE IF IsExternalGlobal(V) THEN [st |-> st, val |-> Fatal]
    ELSE IF depth = 0 THEN [st |-> st, val |-> Fatal]
    ELSE LET S == TypeAllocSize(V)
             A == PreferredAlignment(V)
             offset == RoundUpToAlignment(st.size, A)
             zeroed == [st EXCEPT !.size = ArenaNewSize(offset, S),
                                  !.grew = @ + 1,
                                  !.mem = WriteRegion(@, offset, "zero")]
             r == IF ~IsThreadLocal(V)
                  THEN InitializeMemory(zeroed, V, offset, depth - 1)
                  ELSE [st |-> zeroed, ok |-> TRUE]
             addr == TaggedAddress(offset)
         IN  IF ~r.ok THEN [st |-> r.st, val |-> Fatal]
             ELSE [st |-> [r.st EXCEPT !.offs = RecordOffset(@, V, offset),
                                       !.first = RememberFirst(@, V, addr)],
                   val |-> Returned(addr)]

\* Emitter::getGlobalAddress: the address of an already assigned global.
\* llvm_unreachable ends the process in a build with assertions and is
\* undefined behaviour without; asserts says which build this is.
getGlobalAddress(st, V, asserts) ==
    IF HasOffset(st.offs, V) THEN Returned(TaggedAddress(st.offs[V]))
    ELSE IF asserts THEN Fatal ELSE Garbage

\* ---------------------------------------------------- the unit's functions

Functions == {"F1", "F2", "F3"}

NoFunction == "none"

\* What the instruction producer does between startFunction and
\* finishFunction, one call per item.
Bytes(n) == [op |-> "bytes", n |-> n, sym |-> "", kind |-> "", ltr |-> FALSE]

MBB(n) == [op |-> "mbb", n |-> n, sym |-> "", kind |-> "", ltr |-> FALSE]

Label(sym) == [op |-> "label", n |-> 0, sym |-> sym, kind |-> "", ltr |-> FALSE]

\* A MachineRelocation of the given kind against a symbol (an external name,
\* a global value) or an index (a block number, a constant-pool or
\* jump-table index); ltr is MachineRelocation::letTargetResolve().
Reloc(kind, sym, idx, ltr) ==
    [op |-> "reloc", n |-> idx, sym |-> sym, kind |-> kind, ltr |-> ltr]

\* The body of each function as the producer emits it:
\*   F1  a small function with a two-entry constant pool, that reads the
\*       global g1 directly and through the alias a1, and calls F2
\*   F2  a function of about 9000 bytes with two jump tables
\*   F3  a small function that calls an external symbol
Body(f) ==
    CASE f = "F1" -> << MBB(0), Bytes(16), Reloc("GV", "g1", 0, FALSE),
                        Reloc("GV", "a1", 0, FALSE), Bytes(4), Label("L1"),
                        Reloc("CP", "", 1, FALSE), Bytes(4), MBB(1),
                        Reloc("GV", "F2", 0, FALSE), Bytes(4),
                        Reloc("BB", "", 0, FALSE), Bytes(4) >>
      [] f = "F2" -> << MBB(0), Bytes(5000), Label("L2"),
                        Reloc("JT", "", 1, FALSE), Bytes(4), MBB(1),
                        Reloc("IndirectSym", "gbig", 0, FALSE), Bytes(4000),
                        Reloc("BB", "", 1, FALSE), Bytes(4) >>
      [] f = "F3" -> << MBB(0), Reloc("GV", "gdecl", 0, TRUE), Bytes(8),
                        Reloc("ExtSym", "puts", 0, FALSE), Bytes(4) >>

\* The constant pool of F1 unless a run is given another: entries of sizes
\* 3 and 1 with alignments 4 and 1.
ScenarioPool == << [size |-> 3, align |-> 4], [size |-> 1, align |-> 1] >>

\* F.getJumpTableInfo(): null, or the block numbers of each jump table.
HasJumpTableInfo(f) == f = "F2"

JumpTablesOf(f) == IF f = "F2" THEN << <<0, 1>>, <<0>> >> ELSE << >>

\* F.getFunction()->getAlignment()
FunctionAlignment(f) ==
    CASE f = "F1" -> 16
      [] f = "F2" -> 0
      [] f = "F3" -> 4

\* The target: TargetJITInfo::hasCustomJumpTables, and
\* MachineJumpTableInfo's entry kind, size and alignment.
hasCustomJumpTables == FALSE

EntryKind == "EK_BlockAddress"

EntrySize == 4

EntryAlignment == 4

\* ------------------------------------------------------- buffer allocation

\* JITCodeEmitter::emitAlignment: the cursor after padding, never past the
\* end of the buffer.
emitAlignment(cur, end, Alignment) ==
    LET A == IF Alignment = 0 THEN 1 ELSE Alignment
    IN  Min(RoundUpToAlignment(cur, A), end)

\* JITCodeEmitter::allocateSpace, the branch Emitter::allocateSpace takes
\* while a buffer is open: the pointer returned (0 on overflow) and the
\* cursor after the call.
JITAllocateSpace(cur, end, Size, Alignment) ==
    LET c == emitAlignment(cur, end, Alignment)
    IN  IF Size >= end - c
        THEN [ptr |-> Null, cur |-> end]
        ELSE [ptr |-> c, cur |-> c + Size]

\* JITCodeEmitter::emitByte and its kin, n bytes of them: the cursor stops
\* at the end of the buffer.
emitBytes_Unbounded(cur, end, n) == cur + n

emitBytes(cur, end, n) == Min(cur + n, end)

\* ---------------------------------------------------- constant pool layout

\* Size = (Size + AlignMask) & ~AlignMask
AlignTo_None(Size, AlignMask) == Size

AlignTo_Next(Size, AlignMask) == BitAndNot(Size + AlignMask + 1, AlignMask)

AlignTo(Size, AlignMask) == BitAndNot(Size + AlignMask, AlignMask)

\* The loop of GetConstantPoolSizeInBytes from entry i on, Size so far.
RECURSIVE ConstantPoolSizeFrom(_, _, _)
ConstantPoolSizeFrom(Constants, i, Size) ==
    IF i > Len(Constants) THEN Size
    ELSE LET CPE == Constants[i]
             AlignMask == CPE.align - 1
         IN  ConstantPoolSizeFrom(Constants, i + 1, AlignTo(Size, AlignMask) + CPE.size)

GetConstantPoolSizeInBytes(Constants) ==
    IF Constants = << >> THEN 0 ELSE ConstantPoolSizeFrom(Constants, 1, 0)

\* The loop of emitConstantPool from entry i on: the offsets of the entries
\* relative to ConstantPoolBase, in order.
RECURSIVE ConstantPoolOffsetsFrom(_, _, _)
ConstantPoolOffsetsFrom(Constants, i, Offset) ==
    IF i > Len(Constants) THEN << >>
    ELSE LET CPE == Constants[i]
             AlignMask == CPE.align - 1
             aligned == AlignTo(Offset, AlignMask)
         IN  <<aligned>> \o ConstantPoolOffsetsFrom(Constants, i + 1, aligned + CPE.size)

ConstantPoolOffsets(Constants) == ConstantPoolOffsetsFrom(Constants, 1, 0)

\* MCP->getConstantPoolAlignment(): the largest alignment of an entry.
RECURSIVE getConstantPoolAlignment(_)
getConstantPoolAlignment(Constants) ==
    IF Constants = << >> THEN 1
    ELSE Max(Head(Constants).align, getConstantPoolAlignment(Tail(Constants)))

\* ------------------------------------------------------- jump table layout

\* NumEntries of initJumpTableInfo: the entries of the tables before table
\* number Index (all of them for Index = JT.size()).
NumEntriesBefore_Tables(JT, Index) == Index

RECURSIVE NumEntriesBefore(_, _)
NumEntriesBefore(JT, Index) ==
    IF Index = 0 THEN 0
    ELSE NumEntriesBefore(JT, Index - 1) + Len(JT[Index])

\* The blocks of all tables in slot order, as emitJumpTableInfo walks them.
RECURSIVE JumpTableBlocks(_)
JumpTableBlocks(JT) ==
    IF JT = << >> THEN << >> ELSE Head(JT) \o JumpTableBlocks(Tail(JT))

\* ------------------------------------------------------------------- state

VARIABLES
    \* the emitter's fields
    SizeEstimate,        \* the buffer size of the next attempt, 0 for the default
    BufferBegin,         \* the open buffer: its start, the write cursor
    CurBufferPtr,        \*   and its end; BufferBegin = 0 when none is open
    BufferEnd,
    EmittedFunctions,    \* function -> [FunctionBody, Code, Size, Relocations]
    CurrentCode,         \* the function whose entry CurrentCode points to
    MBBLocations,        \* block number + 1 -> program counter, 0 if not emitted
    LabelLocations,      \* label -> program counter
    GlobalOffsets,       \* global -> offset in the arena
    Globals,             \* the size of the arena
    ConstPoolAddresses,  \* the addresses of the constant-pool entries
    ConstantPoolBase,
    ConstantPool,        \* the function whose pool emitConstantPool saw last
    JumpTable,           \* the function whose tables initJumpTableInfo saw last
    JumpTableBase,
    \* memory and collaborators
    heap,                \* the next address std::malloc returns
    GlobalsMem,          \* the contents of the arena, per region start
    JumpTableMem,        \* the jump-table slots written, address -> outcome
    Relocated,           \* function -> number of TargetJITInfo::relocate calls
    \* the caller
    status,              \* function -> Idle, Emitting, Retrying, Finished, Deleted
    current,             \* the function between startFunction and finishFunction
    ip,                  \* the next item of Body(current)
    resolves,            \* resolveRelocations passes made
    fatal,               \* the process has ended in a fatal error
    \* history
    ret,                 \* the last call and what it returned
    bufferSizes,         \* function -> the buffer sizes of its attempts
    attemptRelocs,       \* the relocations added since the last startFunction
    finalRelocs,         \* function -> the relocations of its successful attempt
    finalLayout,         \* function -> where its successful attempt put things
    allocs,              \* the allocateSpace calls that returned space, in order
    initRuns,            \* global -> number of InitializeMemory runs started
    firstAddress,        \* global -> the address its first returning call gave
    setSizeCalls,        \* number of Globals.set_size calls
    \* the constant pool of F1
    cpConstants,         \* its entries: [size, align] each
    cpSize,              \* the size emitConstantPool asked allocateSpace for last
    jtSize               \* the size initJumpTableInfo asked allocateSpace for last

bufferVars == <<SizeEstimate, BufferBegin, CurBufferPtr, BufferEnd, heap, allocs>>

codeVars ==
    <<EmittedFunctions, CurrentCode, attemptRelocs, finalRelocs, finalLayout, Relocated>>

locationVars == <<MBBLocations, LabelLocations>>

registryVars ==
    <<GlobalOffsets, Globals, GlobalsMem, initRuns, firstAddress, setSizeCalls>>

layoutVars ==
    <<ConstPoolAddresses, ConstantPoolBase, ConstantPool, JumpTable, JumpTableBase,
      JumpTableMem>>

callerVars == <<status, current, ip, resolves, bufferSizes>>

cpVars == <<cpConstants, cpSize, jtSize>>

\* F.getConstantPool()->getConstants(): allocation size and alignment of
\* each entry.
ConstantsOf(f) ==
    CASE f = "F1" -> cpConstants
      [] f = "F2" -> << >>
      [] f = "F3" -> << >>

vars ==
    <<bufferVars, codeVars, locationVars, registryVars, layoutVars, callerVars,
      fatal, ret, cpVars>>

EmptyMap == [x \in {} |-> 0]

NoOutcome == [status |-> "none", ptr |-> NullPtr]

Call(op, arg, out, flag) == [op |-> op, arg |-> arg, out |-> out, flag |-> flag]

\* The emitter after Emitter::Emitter, before any call.
EmitterInit ==
    /\ SizeEstimate = 0
    /\ BufferBegin = Null /\ CurBufferPtr = Null /\ BufferEnd = Null
    /\ EmittedFunctions = EmptyMap
    /\ CurrentCode = NoFunction
    /\ MBBLocations = << >>
    /\ LabelLocations = EmptyMap
    /\ GlobalOffsets = EmptyMap
    /\ Globals = 0
    /\ ConstPoolAddresses = << >>
    /\ ConstantPoolBase = Null
    /\ ConstantPool = NoFunction
    /\ JumpTable = NoFunction
    /\ JumpTableBase = Null
    /\ heap = HeapBase
    /\ GlobalsMem = EmptyMap
    /\ JumpTableMem = EmptyMap
    /\ Relocated = [f \in Functions |-> 0]
    /\ status = [f \in Functions |-> "Idle"]
    /\ current = NoFunction
    /\ ip = 0
    /\ resolves = 0
    /\ fatal = FALSE
    /\ ret = Call("none", "", NoOutcome, FALSE)
    /\ bufferSizes = [f \in Functions |-> << >>]
    /\ attemptRelocs = << >>
    /\ finalRelocs = EmptyMap
    /\ finalLayout = EmptyMap
    /\ allocs = << >>
    /\ jtSize = 0
    /\ initRuns = [g \in GlobalVars |-> 0]
    /\ firstAddress = EmptyMap
    /\ setSizeCalls = 0

Init ==
    /\ EmitterInit
    /\ cpConstants = ScenarioPool
    /\ cpSize = 0

\* A body is open: the producer is between startFunction and finishFunction
\* of a function.  The emitter is single-threaded and the producer holds it
\* for that time, so the calls of the engine (address lookups, relocation
\* resolution, function teardown) come while no body is open.
BodyOpen == current # NoFunction /\ status[current] = "Emitting"

\* ------------------------------------------------ global address registry

RegistryState ==
    [offs |-> GlobalOffsets, size |-> Globals, mem |-> GlobalsMem,
     runs |-> initRuns, first |-> firstAddress, grew |-> setSizeCalls]

SetRegistry(st) ==
    /\ GlobalOffsets' = st.offs
    /\ Globals' = st.size
    /\ GlobalsMem' = st.mem
    /\ initRuns' = st.runs
    /\ firstAddress' = st.first
    /\ setSizeCalls' = st.grew

\* A call of getGlobalVariableAddress(V) from outside the emitter.
AddressOf(V) ==
    /\ ~fatal
    /\ ~BodyOpen
    /\ LET r == getGlobalVariableAddress(RegistryState, V, MaxDepth)
       IN  /\ SetRegistry(r.st)
           /\ fatal' = (r.val.status = "fatal")
           /\ ret' = Call("addressOf", V, r.val, FALSE)
    /\ UNCHANGED <<bufferVars, codeVars, locationVars, layoutVars, callerVars, cpVars>>

\* A call of getPointerToGlobal for an alias: getGlobalAddress of the
\* global it resolves to.
AddressOfAlias(a) ==
    /\ ~fatal
    /\ ~BodyOpen
    /\ \E asserts \in BOOLEAN :
          LET r == getGlobalAddress(RegistryState, resolveAliasedGlobal(a), asserts)
          IN  /\ fatal' = (r.status = "fatal")
              /\ ret' = Call("addressOfAlias", a, r, FALSE)
    /\ UNCHANGED <<bufferVars, codeVars, locationVars, registryVars, layoutVars,
                   callerVars, cpVars>>

\* ------------------------------------------------------ function emission

\* std::malloc as startFunctionBody uses it: a fresh block that overlaps
\* none handed out before (deallocateFunctionBody frees nothing).
Malloc(size) == [ptr |-> heap, next |-> heap + RoundUpToAlignment(size, MallocAlign)]

\* startFunctionBody: the buffer size it settles on.
startFunctionBodySize(ActualSize) ==
    IF ActualSize = 0 THEN DefaultBufferSize ELSE ActualSize

\* The value-initialized EmittedCode that EmittedFunctions[F] inserts.
NewEmittedCode == [FunctionBody |-> Null, Code |-> Null, Size |-> 0, Relocations |-> << >>]

\* EmittedFunctions[F]: the entry of F, inserted if absent.
EntryOf(EF, F) == IF F \in DOMAIN EF THEN EF[F] ELSE NewEmittedCode

PutEntry(EF, F, code) ==
    [f \in DOMAIN EF \cup {F} |-> IF f = F THEN code ELSE EF[f]]

\* Emitter::emitConstantPool at cursor cur: the cursor after it and the new
\* ConstPoolAddresses, ConstantPoolBase and ConstantPool.
emitConstantPool(cur, end, F) ==
    LET Constants == ConstantsOf(F)
        keep == [cur |-> cur, addrs |-> ConstPoolAddresses,
                 base |-> ConstantPoolBase, pool |-> ConstantPool, size |-> cpSize]
    IN  IF Constants = << >> THEN keep
        ELSE LET Size == GetConstantPoolSizeInBytes(Constants)
                 Align == getConstantPoolAlignment(Constants)
                 a == JITAllocateSpace(cur, end, Size, Align)
                 offs == ConstantPoolOffsets(Constants)
             IN  IF a.ptr = Null
                 THEN [keep EXCEPT !.cur = a.cur, !.base = Null, !.pool = F,
                                   !.size = Size]
                 ELSE [cur |-> a.cur,
                       addrs |-> ConstPoolAddresses \o
                                 [i \in 1..Len(offs) |-> a.ptr + offs[i]],
                       base |-> a.ptr, pool |-> F, size |-> Size]

\* Emitter::initJumpTableInfo at cursor cur: the cursor after it and the new
\* JumpTable and JumpTableBase.
initJumpTableInfo(cur, end, F) ==
    LET JT == JumpTablesOf(F)
        keep == [cur |-> cur, table |-> JumpTable, base |-> JumpTableBase,
                 size |-> jtSize]
    IN  IF hasCustomJumpTables \/ EntryKind = "EK_Inline" \/ JT = << >> THEN keep
        ELSE LET NumEntries == NumEntriesBefore(JT, Len(JT))
                 a == JITAllocateSpace(cur, end, NumEntries * EntrySize, EntryAlignment)
             IN  [cur |-> a.cur, table |-> F, base |-> a.ptr,
                  size |-> NumEntries * EntrySize]

\* A successful allocateSpace call: the buffer that was active when it
\* returned, the pointer it returned, the size asked for and who called.
Allocation(Begin, ptr, Size, by) ==
    [buffer |-> Begin, ptr |-> ptr, size |-> Size, by |-> by]

\* Emitter::startFunction, called by a caller that emits one function at a
\* time and retries the function whose finishFunction returned true.
StartFunction(F) ==
    /\ ~fatal
    /\ \/ current = NoFunction /\ status[F] = "Idle"
       \/ current = F /\ status[F] = "Retrying" /\ Len(bufferSizes[F]) < MaxAttempts
    /\ LET ActualSize == startFunctionBodySize(IF SizeEstimate > 0 THEN SizeEstimate ELSE 0)
           m == Malloc(ActualSize)
           Begin == m.ptr
           End == Begin + ActualSize
           c1 == emitAlignment(Begin, End, 16)
           cp == emitConstantPool(c1, End, F)
           jt == IF HasJumpTableInfo(F) THEN initJumpTableInfo(cp.cur, End, F)
                 ELSE [cur |-> cp.cur, table |-> JumpTable, base |-> JumpTableBase,
                       size |-> jtSize]
           c2 == emitAlignment(jt.cur, End, Max(FunctionAlignment(F), 8))
           code == [EntryOf(EmittedFunctions, F) EXCEPT !.FunctionBody = Begin, !.Code = c2]
       IN  /\ heap' = m.next
           /\ BufferBegin' = Begin /\ BufferEnd' = End /\ CurBufferPtr' = c2
           /\ EmittedFunctions' = PutEntry(EmittedFunctions, F, code)
           /\ CurrentCode' = F
           /\ ConstPoolAddresses' = cp.addrs
           /\ ConstantPoolBase' = cp.base
           /\ ConstantPool' = cp.pool
           /\ cpSize' = cp.size
           /\ jtSize' = jt.size
           /\ allocs' = allocs
                 \o (IF ConstantsOf(F) # << >> /\ cp.base # Null
                     THEN <<Allocation(Begin, cp.base, cp.size, "emitConstantPool")>>
                     ELSE << >>)
                 \o (IF HasJumpTableInfo(F) /\ jt.table = F /\ jt.base # Null
                     THEN <<Allocation(Begin, jt.base, jt.size, "initJumpTableInfo")>>
                     ELSE << >>)
           /\ JumpTable' = jt.table
           /\ JumpTableBase' = jt.base
           /\ MBBLocations' = << >>
           /\ bufferSizes' = [bufferSizes EXCEPT ![F] = Append(@, ActualSize)]
    /\ attemptRelocs' = << >>
    /\ status' = [status EXCEPT ![F] = "Emitting"]
    /\ current' = F
    /\ ip' = 1
    /\ ret' = Call("startFunction", F, NoOutcome, FALSE)
    /\ UNCHANGED <<SizeEstimate, LabelLocations, JumpTableMem, Relocated, finalRelocs,
                   finalLayout,
                   registryVars, resolves, fatal, cpConstants>>

\* The producer is about to make the call that item ip of the body stands for.
Emitting(op) ==
    /\ ~fatal
    /\ current # NoFunction
    /\ status[current] = "Emitting"
    /\ ip <= Len(Body(current))
    /\ Body(current)[ip].op = op

Item == Body(current)[ip]

\* The producer emits instruction bytes (JITCodeEmitter::emitByte and kin).
EmitBytes ==
    /\ Emitting("bytes")
    /\ CurBufferPtr' = emitBytes(CurBufferPtr, BufferEnd, Item.n)
    /\ ip' = ip + 1
    /\ ret' = Call("emitBytes", current, NoOutcome, FALSE)
    /\ UNCHANGED <<SizeEstimate, BufferBegin, BufferEnd, heap, allocs, codeVars,
                   locationVars,
                   registryVars, layoutVars, status, current, resolves, bufferSizes,
                   fatal, cpVars>>

\* MBBLocations.resize(n): zero-filled growth.
Resize(locs, n) == [i \in 1..n |-> IF i <= Len(locs) THEN locs[i] ELSE 0]

\* Emitter::StartMachineBasicBlock
StartMachineBasicBlock ==
    /\ Emitting("mbb")
    /\ LET Number == Item.n
           grown == IF Len(MBBLocations) <= Number
                    THEN Resize(MBBLocations, (Number + 1) * 2)
                    ELSE MBBLocations
       IN  MBBLocations' = [grown EXCEPT ![Number + 1] = CurBufferPtr]
    /\ ip' = ip + 1
    /\ ret' = Call("StartMachineBasicBlock", current, NoOutcome, FALSE)
    /\ UNCHANGED <<bufferVars, codeVars, LabelLocations, registryVars, layoutVars,
                   status, current, resolves, bufferSizes, fatal, cpVars>>

\* Emitter::emitLabel
emitLabel ==
    /\ Emitting("label")
    /\ LabelLocations' =
          [l \in DOMAIN LabelLocations \cup {Item.sym} |->
              IF l = Item.sym THEN CurBufferPtr ELSE LabelLocations[l]]
    /\ ip' = ip + 1
    /\ ret' = Call("emitLabel", current, NoOutcome, FALSE)
    /\ UNCHANGED <<bufferVars, codeVars, MBBLocations, registryVars, layoutVars,
                   status, current, resolves, bufferSizes, fatal, cpVars>>

\* The MachineRelocation the producer builds at the cursor.
MachineRelocation(item, offset) ==
    [kind |-> item.kind, sym |-> item.sym, idx |-> item.n, offset |-> offset,
     ltr |-> item.ltr, result |-> NoOutcome]

\* Emitter::addRelocation
addRelocation ==
    /\ Emitting("reloc")
    /\ LET MR == MachineRelocation(Item, CurBufferPtr - BufferBegin)
       IN  /\ EmittedFunctions' =
                 [EmittedFunctions EXCEPT ![CurrentCode].Relocations = Append(@, MR)]
           /\ attemptRelocs' = Append(attemptRelocs, MR)
    /\ ip' = ip + 1
    /\ ret' = Call("addRelocation", current, NoOutcome, FALSE)
    /\ UNCHANGED <<bufferVars, CurrentCode, finalRelocs, finalLayout, Relocated,
                   locationVars,
                   registryVars, layoutVars, status, current, resolves, bufferSizes,
                   fatal, cpVars>>

\* Emitter::getMachineBasicBlockAddress.  The assertion ends the process in
\* a build with assertions; without, a block that was not emitted reads as
\* 0 and a number outside the table reads outside the vector.
getMachineBasicBlockAddress(locs, Number, asserts) ==
    IF Len(locs) > Number /\ locs[Number + 1] # 0 THEN Returned(Ptr(locs[Number + 1]))
    ELSE IF asserts THEN Fatal
    ELSE IF Len(locs) > Number THEN Returned(NullPtr)
    ELSE Garbage

\* Emitter::deallocateMemForFunction: the map without F's entry.
deallocateMemForFunction_Keep(EF, F) == EF

deallocateMemForFunction_Clear(EF, F) == [f \in {} |-> EF[f]]

deallocateMemForFunction(EF, F) ==
    IF F \in DOMAIN EF THEN [f \in DOMAIN EF \ {F} |-> EF[f]] ELSE EF

\* SizeEstimate = (uintptr_t)(2 * (BufferEnd - BufferBegin))
RetryEstimate_Same(Begin, End) == End - Begin

RetryEstimate(Begin, End) == 2 * (End - Begin)

\* SizeEstimate = 0 after a successful finishFunction
EstimateAfterSuccess_Keep(estimate) == estimate

EstimateAfterSuccess(estimate) == 0

\* Emitter::retryWithMoreMemory
retryWithMoreMemory(F) ==
    /\ ConstPoolAddresses' = << >>
    /\ EmittedFunctions' = deallocateMemForFunction(EmittedFunctions, F)
    /\ SizeEstimate' = RetryEstimate(BufferBegin, BufferEnd)

\* The slots emitJumpTableInfo writes for entry kind EK_BlockAddress: slot k
\* of the reservation gets the address of the k-th block of the tables.
JumpTableSlots(JT, asserts) ==
    LET blocks == JumpTableBlocks(JT)
    IN  [a \in {JumpTableBase + (k - 1) * EntrySize : k \in 1..Len(blocks)} |->
            getMachineBasicBlockAddress(
                MBBLocations, blocks[(a - JumpTableBase) \div EntrySize + 1], asserts)]

\* Emitter::emitJumpTableInfo: the slots it writes, none when it returns early.
emitJumpTableInfo(F, asserts) ==
    IF \/ ~HasJumpTableInfo(F)
       \/ hasCustomJumpTables
       \/ JumpTablesOf(F) = << >>
       \/ JumpTableBase = Null
       \/ EntryKind # "EK_BlockAddress"
    THEN EmptyMap
    ELSE JumpTableSlots(JumpTablesOf(F), asserts)

\* Where the attempt that is open has put the function: its buffer, the
\* start of its code, its blocks, its constants and its jump tables.
LayoutNow ==
    [FunctionBody |-> BufferBegin, BufferSize |-> BufferEnd - BufferBegin,
     Code |-> EmittedFunctions[CurrentCode].Code,
     End |-> CurBufferPtr,
     MBBLocations |-> MBBLocations,
     ConstPoolAddresses |-> ConstPoolAddresses,
     JumpTableBase |-> JumpTableBase]

\* Emitter::finishFunction; ret.flag is what it returns.
FinishFunction ==
    /\ ~fatal
    /\ current # NoFunction
    /\ status[current] = "Emitting"
    /\ ip > Len(Body(current))
    /\ LET F == current
       IN  IF CurBufferPtr = BufferEnd
           THEN /\ retryWithMoreMemory(F)
                /\ status' = [status EXCEPT ![F] = "Retrying"]
                /\ ret' = Call("finishFunction", F, NoOutcome, TRUE)
                /\ UNCHANGED <<BufferBegin, CurBufferPtr, BufferEnd, JumpTableMem,
                               finalRelocs, finalLayout, current, fatal>>
           ELSE \E asserts \in BOOLEAN :
                LET slots == emitJumpTableInfo(F, asserts)
                    died == \E a \in DOMAIN slots : slots[a].status = "fatal"
                    Size == CurBufferPtr - EmittedFunctions[CurrentCode].Code
                IN  /\ JumpTableMem' =
                          [a \in DOMAIN JumpTableMem \cup DOMAIN slots |->
                              IF a \in DOMAIN slots THEN slots[a] ELSE JumpTableMem[a]]
                    /\ fatal' = died
                    /\ IF died
                       THEN /\ ret' = Call("finishFunction", F, Fatal, FALSE)
                            /\ UNCHANGED <<SizeEstimate, BufferBegin, CurBufferPtr,
                                           BufferEnd, EmittedFunctions,
                                           ConstPoolAddresses, finalRelocs,
                                           finalLayout, status,
                                           current>>
                       ELSE /\ EmittedFunctions' =
                                  [EmittedFunctions EXCEPT ![CurrentCode].Size = Size]
                            /\ SizeEstimate' = EstimateAfterSuccess(SizeEstimate)
                            /\ BufferBegin' = Null /\ CurBufferPtr' = Null
                            /\ ConstPoolAddresses' = << >>
                            /\ finalRelocs' =
                                  [f \in DOMAIN finalRelocs \cup {F} |->
                                      IF f = F THEN attemptRelocs ELSE finalRelocs[f]]
                            /\ finalLayout' =
                                  [f \in DOMAIN finalLayout \cup {F} |->
                                      IF f = F THEN LayoutNow ELSE finalLayout[f]]
                            /\ status' = [status EXCEPT ![F] = "Finished"]
                            /\ current' = NoFunction
                            /\ ret' = Call("finishFunction", F, NoOutcome, FALSE)
                            /\ UNCHANGED BufferEnd
    /\ UNCHANGED <<heap, allocs, CurrentCode, attemptRelocs, Relocated, locationVars,
                   registryVars, ConstantPoolBase, ConstantPool, JumpTable,
                   JumpTableBase, ip, resolves, bufferSizes, cpVars>>

\* A call of deallocateMemForFunction(F) from outside the emitter (the
\* function is being destroyed, EmittedFunctionConfig::onDelete), for any
\* function: one never emitted, a Finished one, one deallocated before, or
\* the one whose attempt retryWithMoreMemory has just discarded.
DeallocateMemForFunction(F) ==
    /\ ~fatal
    /\ ~BodyOpen
    /\ EmittedFunctions' = deallocateMemForFunction(EmittedFunctions, F)
    /\ status' = [status EXCEPT ![F] = IF @ = "Finished" THEN "Deleted" ELSE @]
    /\ ret' = Call("deallocateMemForFunction", F, NoOutcome, FALSE)
    /\ UNCHANGED <<bufferVars, CurrentCode, attemptRelocs, finalRelocs, finalLayout,
                   Relocated,
                   locationVars, registryVars, layoutVars, current, ip, resolves,
                   bufferSizes, fatal, cpVars>>

\* std::malloc as memAllocateSpace uses it; the alignment asked for is
\* not passed on.
memAllocateSpace(Size, Alignment) == Malloc(Size)

\* Emitter::allocateSpace(Size, Alignment), called by the producer or the
\* engine: bump allocation in the open buffer, or a fresh buffer of Size
\* bytes when none is open.
AllocateSpace(Size, Alignment) ==
    /\ ~fatal
    /\ Cardinality({i \in 1..Len(allocs) : allocs[i].by = "caller"}) < MaxAllocs
    /\ IF BufferBegin # Null
       THEN LET a == JITAllocateSpace(CurBufferPtr, BufferEnd, Size, Alignment)
            IN  /\ CurBufferPtr' = a.cur
                /\ allocs' = IF a.ptr # Null
                              THEN Append(allocs, Allocation(BufferBegin, a.ptr, Size, "caller"))
                              ELSE allocs
                /\ ret' = Call("allocateSpace", "", Returned(Ptr(a.ptr)), FALSE)
                /\ UNCHANGED <<BufferBegin, BufferEnd, heap>>
       ELSE LET m == memAllocateSpace(Size, Alignment)
            IN  /\ BufferBegin' = m.ptr
                /\ CurBufferPtr' = m.ptr
                /\ BufferEnd' = m.ptr + Size
                /\ heap' = m.next
                /\ allocs' = Append(allocs, Allocation(m.ptr, m.ptr, Size, "caller"))
                /\ ret' = Call("allocateSpace", "", Returned(Ptr(m.ptr)), FALSE)
    /\ UNCHANGED <<SizeEstimate, codeVars, locationVars, registryVars, layoutVars,
                   callerVars, fatal, cpVars>>

\* --------------------------------------------------- relocation resolution

\* Emitter::getPointerToGlobal: a global variable, an alias, or a function
\* (for which it returns 0).  Returns [st, val].
getPointerToGlobal(st, V, asserts) ==
    IF V \in GlobalVars THEN getGlobalVariableAddress(st, V, MaxDepth)
    ELSE IF V \in Aliases
    THEN [st |-> st, val |-> getGlobalAddress(st, resolveAliasedGlobal(V), asserts)]
    ELSE [st |-> st, val |-> Returned(NullPtr)]

\* Emitter::getPointerToGVIndirectSym
getPointerToGVIndirectSym(st, V, asserts) == getPointerToGlobal(st, V, asserts)

\* Emitter::getConstantPoolEntryAddress.  The assertion reads the pool
\* emitConstantPool saw last; the address is read from ConstPoolAddresses,
\* outside the vector when it holds fewer entries.
getConstantPoolEntryAddress(ConstantNum, asserts) ==
    IF asserts /\ (\/ ConstantPool = NoFunction
                   \/ ConstantNum >= Len(ConstantsOf(ConstantPool)))
    THEN Fatal
    ELSE IF ConstantNum < Len(ConstPoolAddresses)
    THEN Returned(Ptr(ConstPoolAddresses[ConstantNum + 1]))
    ELSE Garbage

\* Emitter::getJumpTableEntryAddress, against the tables initJumpTableInfo
\* saw last.
getJumpTableEntryAddress(Index, asserts) ==
    IF JumpTable = NoFunction \/ Index >= Len(JumpTablesOf(JumpTable))
    THEN IF asserts THEN Fatal ELSE Garbage
    ELSE LET Offset == NumEntriesBefore(JumpTablesOf(JumpTable), Index) * EntrySize
         IN  Returned(Ptr(JumpTableBase + Offset))

\* The dispatch on the relocation's kind in resolveRelocations: [st, val].
\* An external symbol reaches abort() before any lookup.
resolveRelocation(st, MR, asserts) ==
    CASE MR.kind = "ExtSym"      -> [st |-> st, val |-> Fatal]
      [] MR.kind = "GV"          -> getPointerToGlobal(st, MR.sym, asserts)
      [] MR.kind = "IndirectSym" -> getPointerToGVIndirectSym(st, MR.sym, asserts)
      [] MR.kind = "BB"          ->
            [st |-> st, val |-> getMachineBasicBlockAddress(MBBLocations, MR.idx, asserts)]
      [] MR.kind = "CP"          ->
            [st |-> st, val |-> getConstantPoolEntryAddress(MR.idx, asserts)]
      [] MR.kind = "JT"          ->
            [st |-> st, val |-> getJumpTableEntryAddress(MR.idx, asserts)]

\* The inner loop of resolveRelocations over one function's relocations,
\* from relocation i on: [st, relocs, ok], ok false when the process ended.
RECURSIVE resolveFrom(_, _, _, _)
resolveFrom(st, relocs, i, asserts) ==
    IF i > Len(relocs) THEN [st |-> st, relocs |-> relocs, ok |-> TRUE]
    ELSE IF relocs[i].ltr THEN resolveFrom(st, relocs, i + 1, asserts)
    ELSE LET r == resolveRelocation(st, relocs[i], asserts)
         IN  IF r.val.status = "fatal"
             THEN [st |-> r.st, relocs |-> relocs, ok |-> FALSE]
             ELSE resolveFrom(r.st, [relocs EXCEPT ![i].result = r.val], i + 1, asserts)

\* The outer loop of resolveRelocations over the entries of
\* EmittedFunctions in iteration order, from entry k on.  A function with
\* relocations is handed to TargetJITInfo::relocate once all of them are
\* resolved.  Returns [st, EF, relocated, ok].
RECURSIVE resolveEntries(_, _, _, _, _, _)
resolveEntries(st, EF, relocated, order, k, asserts) ==
    IF k > Len(order) THEN [st |-> st, EF |-> EF, relocated |-> relocated, ok |-> TRUE]
    ELSE LET F == order[k]
         IN  IF EF[F].Relocations = << >>
             THEN resolveEntries(st, EF, relocated, order, k + 1, asserts)
             ELSE LET r == resolveFrom(st, EF[F].Relocations, 1, asserts)
                  IN  IF ~r.ok
                      THEN [st |-> r.st, EF |-> EF, relocated |-> relocated, ok |-> FALSE]
                      ELSE resolveEntries(r.st,
                                          [EF EXCEPT ![F].Relocations = r.relocs],
                                          [relocated EXCEPT ![F] = @ + 1],
                                          order, k + 1, asserts)

\* The orders in which a ValueMap may iterate over its keys.
IterationOrders(S) ==
    {o \in [1..Cardinality(S) -> S] : \A i, j \in 1..Cardinality(S) : o[i] = o[j] => i = j}

\* Emitter::resolveRelocations, called while no function is being emitted.
ResolveRelocations ==
    /\ ~fatal
    /\ current = NoFunction
    /\ resolves < MaxResolves
    /\ \E order \in IterationOrders(DOMAIN EmittedFunctions), asserts \in BOOLEAN :
          LET r == resolveEntries(RegistryState, EmittedFunctions, Relocated, order, 1,
                                  asserts)
          IN  /\ SetRegistry(r.st)
              /\ EmittedFunctions' = r.EF
              /\ Relocated' = r.relocated
              /\ fatal' = ~r.ok
              /\ ret' = Call("resolveRelocations", "", IF r.ok THEN NoOutcome ELSE Fatal,
                             FALSE)
    /\ resolves' = resolves + 1
    /\ UNCHANGED <<bufferVars, CurrentCode, attemptRelocs, finalRelocs, finalLayout,
                   locationVars,
                   layoutVars, status, current, ip, bufferSizes, cpVars>>

Next ==
    \/ \E V \in GlobalVars : AddressOf(V)
    \/ \E a \in Aliases : AddressOfAlias(a)
    \/ \E F \in Functions : StartFunction(F)
    \/ EmitBytes
    \/ StartMachineBasicBlock
    \/ emitLabel
    \/ addRelocation
    \/ FinishFunction
    \/ ResolveRelocations
    \/ \E F \in Functions : DeallocateMemForFunction(F)

Spec == Init /\ [][Next]_vars

\* ------------------------------------------------ the caller's retry loop

\* The caller alone: it starts a function, emits its body, calls
\* finishFunction, and starts the same function again whenever
\* finishFunction returned true.  The loop is sequential code, so a step
\* that can be taken is taken.
NextEmission ==
    \/ \E F \in Functions : StartFunction(F)
    \/ EmitBytes
    \/ StartMachineBasicBlock
    \/ emitLabel
    \/ addRelocation
    \/ FinishFunction

LiveSpec == Init /\ [][NextEmission]_vars /\ WF_vars(NextEmission)

\* ------------------------------------- F1 with any small constant pool

MaxPoolLen == 3

EntrySizes == {1, 3, 8}

EntryAlignments == {1, 4, 8}

PoolEntries == [size : EntrySizes, align : EntryAlignments]

PoolInputs == UNION {[1..n -> PoolEntries] : n \in 0..MaxPoolLen}

InitPool ==
    /\ EmitterInit
    /\ cpConstants \in PoolInputs
    /\ cpSize = 0

NextPool ==
    \/ StartFunction("F1")
    \/ EmitBytes
    \/ StartMachineBasicBlock
    \/ emitLabel
    \/ addRelocation
    \/ FinishFunction

PoolSpec == InitPool /\ [][NextPool]_vars

\* ------------------------------------- F1 with allocateSpace calls around it

\* The sizes and alignments allocateSpace is called with.
AllocSizes == {8, 24}

AllocAlignments == {1, 16}

NextAlloc ==
    \/ \E Size \in AllocSizes, Alignment \in AllocAlignments : AllocateSpace(Size, Alignment)
    \/ StartFunction("F1")
    \/ EmitBytes
    \/ StartMachineBasicBlock
    \/ emitLabel
    \/ addRelocation
    \/ FinishFunction

AllocSpec == Init /\ [][NextAlloc]_vars

\* ------------------------------------------------------------- properties

\* The globals that have a definition in the unit, read off their linkage.
DefinedInUnit(g) == GlobalInfo[g].linkage = "defined"

\* The relocations of the emitted functions that name a global variable
\* and have been resolved to an address.
ResolvedGlobalRelocs ==
    {<<F, i>> \in UNION {{F} \X (1..Len(EmittedFunctions[F].Relocations)) :
                           F \in DOMAIN EmittedFunctions} :
        LET MR == EmittedFunctions[F].Relocations[i]
        IN  /\ MR.kind \in {"GV", "IndirectSym"}
            /\ MR.sym \in GlobalVars
            /\ MR.result.status = "ok"}

\* C1: addressOf is idempotent for a global defined in the unit.  Once a
\* call for G has returned, every later call of getGlobalVariableAddress(G)
\* returns the address the first call returned, leaves the size of the
\* arena as it was and starts no initializer; and every address that
\* resolveRelocations stores for a relocation against G is that address too.
C1_AddressOfIdempotent ==
    [][/\ (/\ ret'.op = "addressOf"
           /\ DefinedInUnit(ret'.arg)
           /\ ret'.arg \in DOMAIN firstAddress)
          => /\ ret'.out = Returned(firstAddress[ret'.arg])
             /\ Globals' = Globals
             /\ setSizeCalls' = setSizeCalls
             /\ initRuns' = initRuns
       /\ \A g \in DOMAIN firstAddress : firstAddress'[g] = firstAddress[g]
       /\ \A x \in ResolvedGlobalRelocs' :
             LET MR == EmittedFunctions'[x[1]].Relocations[x[2]]
             IN  MR.result.ptr = firstAddress'[MR.sym]
      ]_vars

\* C1 witness: g1 was first addressed by F1's relocation, gtls was assigned
\* after it, and a later direct call for g1 has returned.
C1_Witness ==
    /\ ret.op = "addressOf" /\ ret.arg = "g1" /\ ret.out.status = "ok"
    /\ <<"F1", 1>> \in ResolvedGlobalRelocs
    /\ "gtls" \in DOMAIN GlobalOffsets
    /\ GlobalOffsets["gtls"] > GlobalOffsets["g1"]
    /\ initRuns["g1"] = 1

C3_OffsetsStableArenaGrows ==
    [][/\ \A g \in DOMAIN GlobalOffsets :
             g \in DOMAIN GlobalOffsets' /\ GlobalOffsets'[g] = GlobalOffsets[g]
       /\ Globals' >= Globals
      ]_vars

\* C3 witness: three globals are assigned, relocations have been resolved,
\* a function was retried and another deallocated.
C3_Witness ==
    /\ Cardinality(DOMAIN GlobalOffsets) = 3
    /\ resolves >= 1
    /\ \E F \in Functions : status[F] = "Deleted"
    /\ \E F \in Functions : Len(bufferSizes[F]) >= 2
    /\ ret.op = "addressOfAlias"

\* The byte of a tagged address that the marker occupies, and the offset
\* left when the marker's bits are cleared.
TagBits(p) == p.hi

StripTag(p) == BitAndNot(p.hi, GlobalTag) * TagShift + p.lo

\* C4: every tagged address handed out has exactly the marker in its tag
\* bits, stripping the marker gives back the global's offset, and globals at
\* different offsets have different tagged addresses.
C4_TagRoundTrips ==
    /\ \A g \in DOMAIN GlobalOffsets :
          /\ TagBits(firstAddress[g]) = GlobalTag
          /\ StripTag(firstAddress[g]) = GlobalOffsets[g]
    /\ \A g, h \in DOMAIN GlobalOffsets :
          GlobalOffsets[g] # GlobalOffsets[h] => firstAddress[g] # firstAddress[h]

\* Whether F1's constant pool has been laid out in the open buffer, and the
\* offset of its entry i from ConstantPoolBase.
PoolLaidOut ==
    /\ current = "F1" /\ status["F1"] = "Emitting"
    /\ cpConstants # << >>
    /\ ConstantPoolBase # Null

PoolOffset(i) == ConstPoolAddresses[i] - ConstantPoolBase

\* C5: for any sequence of (size, power-of-two alignment) entries, every
\* offset emitConstantPool computes is a multiple of its entry's alignment,
\* each entry starts at or after the end of the one before it, and the size
\* GetConstantPoolSizeInBytes asked allocateSpace for covers the last entry.
C5_PoolLayoutAligned ==
    PoolLaidOut =>
        /\ Len(ConstPoolAddresses) = Len(cpConstants)
        /\ \A i \in 1..Len(cpConstants) :
              /\ PoolOffset(i) % cpConstants[i].align = 0
              /\ i < Len(cpConstants)
                 => PoolOffset(i + 1) >= PoolOffset(i) + cpConstants[i].size
        /\ cpSize >= PoolOffset(Len(cpConstants)) + cpConstants[Len(cpConstants)].size

\* C5 witness: a pool of three entries is laid out, with padding in front of
\* its second and third entries.
C5_Witness ==
    /\ PoolLaidOut
    /\ Len(cpConstants) = 3
    /\ PoolOffset(2) > PoolOffset(1) + cpConstants[1].size
    /\ PoolOffset(3) > PoolOffset(2) + cpConstants[2].size

\* C6 as stated: the pool with entries of sizes 3 and 1 and alignments 4 and
\* 1 is laid out at offsets 0 and 4, with a total size of at least 5.
C6_ScenarioAsStated ==
    (PoolLaidOut /\ cpConstants = ScenarioPool)
        => /\ PoolOffset(1) = 0 /\ PoolOffset(2) = 4
           /\ cpSize >= 5

\* C6 amended: the pool with entries of sizes 3 and 1 and alignments 4 and 1
\* is laid out at offsets 0 and 3 (an alignment of 1 rounds nothing), and
\* its total size is 4.
C6_ScenarioLayout ==
    (PoolLaidOut /\ cpConstants = ScenarioPool)
        => /\ Len(ConstPoolAddresses) = 2
           /\ PoolOffset(1) = 0 /\ PoolOffset(2) = 3
           /\ cpSize = 4

\* C6 witness: that pool has been laid out.
C6_Witness == PoolLaidOut /\ cpConstants = ScenarioPool /\ cpSize > 0

\* C7: the buffer sizes of a function's attempts are 4096 for the first and
\* twice the size of the attempt before for every retry, however many
\* retries the functions finished before it needed.
C7_BufferSizesDouble ==
    \A F \in Functions :
        LET sizes == bufferSizes[F]
        IN  /\ Len(sizes) >= 1 => sizes[1] = 4096
            /\ \A i \in 1..(Len(sizes) - 1) : sizes[i + 1] = 2 * sizes[i]

\* C7 witness: F2 finished on its third attempt and F1 was started after it.
C7_Witness ==
    /\ status["F2"] = "Finished" /\ Len(bufferSizes["F2"]) = 3
    /\ status["F1"] = "Emitting" /\ Len(bufferSizes["F1"]) = 1
    /\ ret.op = "startFunction"

\* C8: when the caller starts the function again after every finishFunction
\* that returned true, every function being emitted is eventually Finished,
\* by a finishFunction that returned false.
C8_RetryTerminates ==
    \A F \in Functions :
        (status[F] = "Emitting")
            ~> (/\ status[F] = "Finished"
                /\ ret = Call("finishFunction", F, NoOutcome, FALSE))

\* C8 witness: F2, which does not fit in its first two buffers, is Finished.
C8_Witness ==
    /\ status["F2"] = "Finished"
    /\ Len(bufferSizes["F2"]) = 3
    /\ EmittedFunctions["F2"].Size > 2 * DefaultBufferSize

\* A relocation list as addRelocation received it, without result pointers.
AsAdded(relocs) == [i \in 1..Len(relocs) |-> [relocs[i] EXCEPT !.result = NoOutcome]]

\* C9: the relocation list of a Finished function holds exactly the
\* relocations added during its final attempt, in order, and none of an
\* attempt that was discarded.
C9_OnlyFinalAttemptRelocs ==
    \A F \in DOMAIN EmittedFunctions :
        status[F] = "Finished"
            => AsAdded(EmittedFunctions[F].Relocations) = finalRelocs[F]

\* C9 witness: F2 is Finished after two discarded attempts, each of which
\* recorded its three relocations.
C9_Witness ==
    /\ status["F2"] = "Finished"
    /\ Len(bufferSizes["F2"]) = 3
    /\ Len(EmittedFunctions["F2"].Relocations) = 3
    /\ Len(finalRelocs["F2"]) = 3

\* C10: right after startFunction returns, the block location table and the
\* label location table hold no location, so none of a discarded attempt or
\* of a function emitted before.
C10_LocationTablesCleared ==
    ret.op = "startFunction"
        => /\ MBBLocations = << >>
           /\ DOMAIN LabelLocations = {}

\* The relocations of kind k of the functions that are Finished and still
\* have an entry, as <<function, index>>, that resolveRelocations has given
\* a result.
ResolvedRelocsOfKind(k) ==
    {<<F, i>> \in UNION {{F} \X (1..Len(EmittedFunctions[F].Relocations)) :
                           F \in DOMAIN EmittedFunctions} :
        /\ status[F] = "Finished"
        /\ EmittedFunctions[F].Relocations[i].kind = k
        /\ EmittedFunctions[F].Relocations[i].result.status # "none"}

RelocAt(x) == EmittedFunctions[x[1]].Relocations[x[2]]

\* C11: every resolved basic-block relocation of a Finished function F
\* holds the address recorded for its block during F's own final attempt.
C11_BlockRelocsRoundTrip ==
    \A x \in ResolvedRelocsOfKind("BB") :
        LET blocks == finalLayout[x[1]].MBBLocations
            B == RelocAt(x).idx
        IN  /\ B < Len(blocks)
            /\ RelocAt(x).result = Returned(Ptr(blocks[B + 1]))

\* C12: a resolved global-value relocation whose target is a function that
\* is Finished holds the address where that function's code starts.
C12_CallResolvesToBody ==
    \A x \in ResolvedRelocsOfKind("GV") :
        LET target == RelocAt(x).sym
        IN  (/\ target \in Functions
             /\ target \in DOMAIN EmittedFunctions
             /\ status[target] = "Finished")
                => RelocAt(x).result = Returned(Ptr(EmittedFunctions[target].Code))

\* C13: every resolved constant-pool relocation of a Finished function F
\* with index i holds the address recorded for entry i of F's pool during
\* F's final attempt, read from a list that still holds it.
C13_PoolRelocsResolve ==
    \A x \in ResolvedRelocsOfKind("CP") :
        LET addrs == finalLayout[x[1]].ConstPoolAddresses
            i == RelocAt(x).idx
        IN  /\ i < Len(addrs)
            /\ RelocAt(x).result = Returned(Ptr(addrs[i + 1]))

\* The names the engine's external symbol table resolves.
NamedFunctions == {"puts"}

\* Every relocation resolveRelocations has to resolve itself is an
\* external symbol the table knows.
OnlyKnownExternalSymbols ==
    \A F \in DOMAIN EmittedFunctions :
        \A i \in 1..Len(EmittedFunctions[F].Relocations) :
            LET MR == EmittedFunctions[F].Relocations[i]
            IN  ~MR.ltr => MR.kind = "ExtSym" /\ MR.sym \in NamedFunctions

\* C14: a resolveRelocations pass that meets only external symbols present
\* in the symbol table does not end in the fatal error, and gives each of
\* those relocations a result.
C14_ExternalSymbolLooksUp ==
    (ret.op = "resolveRelocations" /\ OnlyKnownExternalSymbols)
        => /\ ~fatal
           /\ \A F \in DOMAIN EmittedFunctions :
                 \A i \in 1..Len(EmittedFunctions[F].Relocations) :
                     LET MR == EmittedFunctions[F].Relocations[i]
                     IN  ~MR.ltr => MR.result.status = "ok"

\* C15: the relocations of a function are handed to the target's patch
\* routine in at most one resolveRelocations pass, and are gone from the
\* function's entry afterwards.
C15_RelocationsConsumedOnce ==
    \A F \in Functions :
        /\ Relocated[F] <= 1
        /\ (Relocated[F] = 1 /\ F \in DOMAIN EmittedFunctions)
              => EmittedFunctions[F].Relocations = << >>

\* C16: deallocateMemForFunction(F) removes the entry of F and nothing
\* else: every other entry, the arena, the offsets of the globals, the
\* size estimate and both location tables are as before; when F had no
\* entry the map of entries is unchanged; and F has no entry afterwards, so
\* that a second call is the call without an entry.
C16_DeallocateRemovesOnlyF ==
    [][ret'.op = "deallocateMemForFunction"
          => LET F == ret'.arg
             IN  /\ DOMAIN EmittedFunctions' = DOMAIN EmittedFunctions \ {F}
                 /\ \A f \in DOMAIN EmittedFunctions' :
                        EmittedFunctions'[f] = EmittedFunctions[f]
                 /\ F \notin DOMAIN EmittedFunctions
                        => EmittedFunctions' = EmittedFunctions
                 /\ Globals' = Globals
                 /\ GlobalOffsets' = GlobalOffsets
                 /\ SizeEstimate' = SizeEstimate
                 /\ MBBLocations' = MBBLocations
                 /\ LabelLocations' = LabelLocations
                 /\ ~fatal'
      ]_vars

\* C16 witness: a call for a function whose attempt an overflow has just
\* discarded, made after another function was deallocated twice over and
\* while a third still has its entry.
C16_Witness ==
    /\ ret.op = "deallocateMemForFunction"
    /\ status[ret.arg] = "Retrying"
    /\ \E f \in Functions : status[f] = "Deleted"
    /\ DOMAIN EmittedFunctions # {}

\* The globals whose initializer takes the global's own address.
SelfReferencing(g) ==
    \E i \in 1..Len(GlobalInfo[g].refs) : GlobalInfo[g].refs[i] = g

\* C17: addressOf of a global whose initializer takes the global's own
\* address returns an address, having initialized the global once and
\* grown the arena once.
C17_ReentrantLookupStable ==
    (ret.op = "addressOf" /\ SelfReferencing(ret.arg) /\ ~IsThreadLocal(ret.arg))
        => /\ ret.out.status = "ok"
           /\ ret.arg \in DOMAIN GlobalOffsets
           /\ ret.out.ptr = TaggedAddress(GlobalOffsets[ret.arg])
           /\ initRuns[ret.arg] = 1

\* The address a 32-bit pointer value stands for.
AddressOfPtr(p) == p.hi * TagShift + p.lo

\* The functions that are Finished and whose jump tables are the ones
\* initJumpTableInfo saw last.
WithJumpTables ==
    {F \in Functions : /\ status[F] = "Finished"
                       /\ F \in DOMAIN finalLayout
                       /\ JumpTablesOf(F) # << >>
                       /\ JumpTable = F}

C19_OverflowExactlyAtEnd ==
    [][(ret'.op = "finishFunction" /\ ~fatal')
          => LET F == ret'.arg
             IN  /\ ret'.flag <=> (CurBufferPtr = BufferEnd)
                 /\ ret'.flag
                       => /\ SizeEstimate' = 2 * (BufferEnd - BufferBegin)
                          /\ F \notin DOMAIN EmittedFunctions'
                          /\ JumpTableMem' = JumpTableMem
                          /\ status'[F] = "Retrying"
                 /\ ~ret'.flag
                       => /\ status'[F] = "Finished"
                          /\ CurBufferPtr < BufferEnd
                          /\ EmittedFunctions'[F].Size < BufferEnd - BufferBegin
      ]_vars

\* C19 witness: F2's second attempt has overflowed its buffer of 8192 bytes
\* before any of its jump-table slots was written.
C19_Witness ==
    /\ ret = Call("finishFunction", "F2", NoOutcome, TRUE)
    /\ Len(bufferSizes["F2"]) = 2
    /\ SizeEstimate = 4 * DefaultBufferSize
    /\ JumpTableBase # Null
    /\ JumpTableMem = EmptyMap

\* C20: after an allocateSpace call that returned space, the cursor is at or
\* past the end of the region returned; and the regions returned while one
\* buffer was active do not overlap.
C20_AllocateAdvancesCursor ==
    /\ (ret.op = "allocateSpace" /\ ret.out.ptr # NullPtr)
          => CurBufferPtr >= allocs[Len(allocs)].ptr + allocs[Len(allocs)].size
    /\ \A i, j \in 1..Len(allocs) :
          (i < j /\ allocs[i].buffer = allocs[j].buffer)
              => \/ allocs[i].ptr + allocs[i].size <= allocs[j].ptr
                 \/ allocs[j].ptr + allocs[j].size <= allocs[i].ptr

\* The region of the arena an assigned global occupies: its first offset
\* and the offset after its last.
RegionStart(g) == GlobalOffsets[g]

RegionEnd(g) == GlobalOffsets[g] + TypeAllocSize(g)

\* C21: the regions of any two assigned globals are disjoint, every
\* assigned offset is a multiple of the global's preferred alignment, and
\* every region lies within the arena.
C21_RegionsDisjointAligned ==
    /\ \A g \in DOMAIN GlobalOffsets :
          /\ RegionStart(g) % PreferredAlignment(g) = 0
          /\ RegionEnd(g) <= Globals
    /\ \A g, h \in DOMAIN GlobalOffsets :
          g # h => RegionEnd(g) <= RegionStart(h) \/ RegionEnd(h) <= RegionStart(g)

\* C21 witness: gtls was assigned first, then gbig behind padding, and g1
\* by gbig's initializer, behind gbig's region.
C21_Witness ==
    /\ ret.op = "addressOf" /\ ret.arg = "gbig" /\ ret.out.status = "ok"
    /\ DOMAIN GlobalOffsets = {"gtls", "gbig", "g1"}
    /\ GlobalOffsets["gtls"] = 0
    /\ GlobalOffsets["gbig"] = 16
    /\ GlobalOffsets["g1"] = 16 + 2 * TagShift
    /\ Globals = GlobalOffsets["g1"] + 8

====
